---- MODULE Spec2Model ----
(***************************************************************************)
(* Cost-basis accounting engine (CostBasisEngine) and the tax event        *)
(* classifier (TaxEngine.calculate) of the crypto-tax-calculator skill.    *)
(*                                                                         *)
(* Numbers are Python Decimals.  A Decimal is modelled by its value, the   *)
(* record [c |-> coefficient, e |-> exponent] standing for c * 10^e, kept  *)
(* in canonical form (no trailing zero in c; zero is [c |-> 0, e |-> 0]),  *)
(* which is the equality Decimal.__eq__ decides.  Every arithmetic result  *)
(* is rounded half-even to PREC significant digits, as the decimal         *)
(* context does (the context's precision is 28; PREC is its scaled-down    *)
(* stand-in, so that the coefficients fit the model checker's integers).   *)
(*                                                                         *)
(* A datetime is modelled as a number of ticks, TicksPerDay ticks a day;   *)
(* timedelta.days is the floor of the difference in days.                  *)
(***************************************************************************)
EXTENDS Integers, Sequences, FiniteSets, TLC

\* ------------------------------------------------------------------ bounds
\* significant digits of the decimal context (28 in Python, scaled down)
PREC == 5
\* significant digits kept by float() (a double keeps about 16 of the 28)
FloatPrec == 3
\* resolution of the clock: ticks per calendar day
TicksPerDay == 2
\* add_lot and dispose calls made on one engine
MaxOps == 4
\* transactions in one classifier run
MaxTx == 3

\* --------------------------------------------------------- Decimal values
RECURSIVE Pow10(_)
Pow10(n) == IF n = 0 THEN 1 ELSE 10 * Pow10(n - 1)

RECURSIVE NumDigits(_)
NumDigits(n) == IF n < 10 THEN 1 ELSE 1 + NumDigits(n \div 10)

Abs(n) == IF n < 0 THEN -n ELSE n

Max2(a, b) == IF a >= b THEN a ELSE b

Min2(a, b) == IF a <= b THEN a ELSE b

\* the value c * 10^e in canonical form
RECURSIVE Canon(_, _)
Canon(c, e) ==
    IF c = 0 THEN [c |-> 0, e |-> 0]
    ELSE IF c % 10 = 0 THEN Canon(c \div 10, e + 1)
    ELSE [c |-> c, e |-> e]

\* Decimal("...") of a literal: exact, whatever the context precision
Dec(c, e) == Canon(c, e)

Zero == Dec(0, 0)

\* the context's rounding (ROUND_HALF_EVEN) of sign * m * 10^e, m >= 0, to
\* digits significant digits; sticky says that the exact value lies strictly
\* above m * 10^e in magnitude (digits lost below the last one of m)
RoundTo(digits, sign, m, e, sticky) ==
    LET d == NumDigits(m)
    IN  IF d <= digits THEN Canon(sign * m, e)
        ELSE LET k    == d - digits
                 q    == m \div Pow10(k)
                 r    == m % Pow10(k)
                 half == 5 * Pow10(k - 1)
                 up   == \/ r > half
                         \/ r = half /\ (sticky \/ q % 2 = 1)
             IN  Canon(sign * (IF up THEN q + 1 ELSE q), e + k)

Round(sign, m, e, sticky) == RoundTo(PREC, sign, m, e, sticky)

Sign(a) == IF a.c < 0 THEN -1 ELSE 1

Neg(a) == [c |-> -a.c, e |-> a.e]

\* Decimal.__mul__
Mul(a, b) == Round(Sign(a) * Sign(b), Abs(a.c) * Abs(b.c), a.e + b.e, FALSE)

\* long division, one quotient digit a step, until the quotient has more than
\* PREC digits or the division is exact
RECURSIVE DivLoop(_, _, _, _)
DivLoop(q, r, nb, e) ==
    IF r = 0 \/ q >= Pow10(PREC) THEN <<q, r, e>>
    ELSE DivLoop(q * 10 + (r * 10) \div nb, (r * 10) % nb, nb, e - 1)

\* Decimal.__truediv__ (the callers never divide by zero)
Div(a, b) ==
    IF a.c = 0 THEN Zero
    ELSE LET na == Abs(a.c)
             nb == Abs(b.c)
             t  == DivLoop(na \div nb, na % nb, nb, a.e - b.e)
         IN  Round(Sign(a) * Sign(b), t[1], t[3], t[2] # 0)

\* exponent of the leading digit
Adjusted(a) == a.e + NumDigits(Abs(a.c)) - 1

\* Decimal.__add__: the operands are aligned at the lower exponent; an operand
\* lying wholly below the digits that can matter is cut there and its cut-off
\* tail is kept as the sticky flag
Add(a, b) ==
    IF a.c = 0 THEN Round(Sign(b), Abs(b.c), b.e, FALSE)
    ELSE IF b.c = 0 THEN Round(Sign(a), Abs(a.c), a.e, FALSE)
    ELSE LET top  == Max2(Adjusted(a), Adjusted(b))
             lo   == Max2(Min2(a.e, b.e), top - (PREC + 2))
             Cut(x) == IF x.e >= lo THEN x.c * Pow10(x.e - lo)
                       ELSE Sign(x) * (Abs(x.c) \div Pow10(lo - x.e))
             Lost(x) == x.e < lo /\ Abs(x.c) % Pow10(lo - x.e) # 0
             s    == Cut(a) + Cut(b)
             tail == IF Lost(a) THEN Sign(a) ELSE IF Lost(b) THEN Sign(b) ELSE 0
         IN  IF tail = 0 THEN Round(IF s < 0 THEN -1 ELSE 1, Abs(s), lo, FALSE)
             ELSE IF tail > 0
                  THEN IF s >= 0 THEN Round(1, s, lo, TRUE)
                                 ELSE Round(-1, (-s) - 1, lo, TRUE)
                  ELSE IF s > 0  THEN Round(1, s - 1, lo, TRUE)
                                 ELSE Round(-1, -s, lo, TRUE)

\* Decimal.__sub__
Sub(a, b) == Add(a, Neg(b))

\* Decimal comparisons: exact, by value (a difference never rounds to zero)
Lt(a, b) == a # b /\ Sub(a, b).c < 0

Le(a, b) == a = b \/ Lt(a, b)

Gt(a, b) == Lt(b, a)

Ge(a, b) == Le(b, a)

\* Python's min(a, b): the first argument unless the second is smaller
PyMin(a, b) == IF Lt(b, a) THEN b ELSE a

\* float(Decimal): the nearest double, here the nearest FloatPrec-digit value
ToFloat(a) == RoundTo(FloatPrec, Sign(a), Abs(a.c), a.e, FALSE)

\* ---------------------------------------------------------------- datetimes
Day(d) == d * TicksPerDay

\* (later - earlier).days
DaysBetween(earlier, later) == (later - earlier) \div TicksPerDay


\* ------------------------------------------------------------------- assets
\* str.upper() on the asset symbols used
Upper(s) ==
    CASE s = "btc" -> "BTC"
      [] s = "eth" -> "ETH"
      [] s = "usdc" -> "USDC"
      [] OTHER     -> s

\* the keys the _lots dictionary can get (a missing key reads as the empty list)
Symbols == {"BTC", "ETH"}

\* str.lower() on the method names used
Lower(s) ==
    CASE s = "FIFO" -> "fifo"
      [] s = "LIFO" -> "lifo"
      [] s = "HIFO" -> "hifo"
      [] OTHER      -> s

\* method arguments given to the constructor
MethodInputs == {"fifo", "LIFO", "hifo", "average"}

\* ------------------------------------------------------------------ program
VARIABLES
    method,         \* CostBasisEngine.method
    lots,           \* CostBasisEngine._lots: symbol -> list of lots
    lot_counter,    \* CostBasisEngine._lot_counter
    disposals,      \* CostBasisEngine._disposals
    calls,          \* number of dispose invocations made on the engine
    last,           \* the most recent call on the engine: its name and arguments
    results,        \* what the most recent dispose call returned
    raised,         \* whether the most recent dispose call raised ValueError
    pc,             \* TaxEngine.calculate: "idle", "loop", "done" or "aborted"
    txs,            \* calculate: the sorted transaction list
    idx,            \* calculate: number of transactions processed
    out_disposals,  \* calculate: disposals
    income_events,  \* calculate: income_events
    skipped,        \* calculate: skipped
    ret             \* calculate: the returned dictionary

engine == <<method, lots, lot_counter, disposals>>

frame == <<calls, last, results, raised>>

classifier == <<pc, txs, idx, out_disposals, income_events, skipped, ret>>

vars == <<method, lots, lot_counter, disposals, calls, last, results, raised,
          pc, txs, idx, out_disposals, income_events, skipped, ret>>

LONG_TERM_DAYS == 365

\* Lot.__post_init__: remaining defaults to quantity
NewLot(asset, quantity, cost_per_unit, acquired_date, fees, lot_id) ==
    [asset |-> asset, quantity |-> quantity, cost_per_unit |-> cost_per_unit,
     acquired_date |-> acquired_date, remaining |-> quantity, fees |-> fees,
     lot_id |-> lot_id]

\* Lot.total_cost
TotalCost(lot) == Add(Mul(lot.quantity, lot.cost_per_unit), lot.fees)

\* Lot.cost_basis_per_unit
CostBasisPerUnit(lot) ==
    IF lot.quantity = Zero THEN Zero ELSE Div(TotalCost(lot), lot.quantity)

\* sum(lot.remaining for lot in lots): a left fold from 0
RECURSIVE SumRemaining(_, _)
SumRemaining(ls, n) ==
    IF n = 0 THEN Zero ELSE Add(SumRemaining(ls, n - 1), ls[n].remaining)

\* an availability that looks at the first lot of the asset only
GetAvailableFirstLot(L, asset) ==
    LET ls == IF Upper(asset) \in DOMAIN L THEN L[Upper(asset)] ELSE <<>>
    IN  SumRemaining(ls, Min2(1, Len(ls)))

\* CostBasisEngine.get_available
GetAvailable(L, asset) ==
    LET ls == IF Upper(asset) \in DOMAIN L THEN L[Upper(asset)] ELSE <<>>
    IN  SumRemaining(ls, Len(ls))

\* a comparison that sorts oldest first under lifo too
PrecedesOldestAlways(m, a, b) ==
    CASE m = "hifo" -> Gt(CostBasisPerUnit(a), CostBasisPerUnit(b))
      [] OTHER      -> a.acquired_date < b.acquired_date

\* a comparison that sorts newest first under fifo
PrecedesNewestFirst(m, a, b) ==
    CASE m = "hifo" -> Gt(CostBasisPerUnit(a), CostBasisPerUnit(b))
      [] OTHER      -> a.acquired_date > b.acquired_date

\* a comparison that sorts the cheapest lot first under hifo
PrecedesLowestCostFirst(m, a, b) ==
    CASE m = "fifo" -> a.acquired_date < b.acquired_date
      [] m = "lifo" -> a.acquired_date > b.acquired_date
      [] m = "hifo" -> Lt(CostBasisPerUnit(a), CostBasisPerUnit(b))
      [] OTHER      -> a.acquired_date < b.acquired_date

\* the sort key comparison of _get_lots_in_order: lot a sorts strictly before b
Precedes(m, a, b) ==
    CASE m = "fifo" -> a.acquired_date < b.acquired_date
      [] m = "lifo" -> a.acquired_date > b.acquired_date
      [] m = "hifo" -> Gt(CostBasisPerUnit(a), CostBasisPerUnit(b))
      [] OTHER      -> a.acquired_date < b.acquired_date

\* an ordering in which lots with equal keys come out in reverse list order
GetLotsInOrderTiesReversed(L, m, asset) ==
    LET ls   == IF Upper(asset) \in DOMAIN L THEN L[Upper(asset)] ELSE <<>>
        live == {i \in 1..Len(ls) : Gt(ls[i].remaining, Zero)}
        Before(j, i) == \/ Precedes(m, ls[j], ls[i])
                        \/ /\ ~Precedes(m, ls[i], ls[j])
                           /\ j > i
        rank(i) == Cardinality({j \in live : j # i /\ Before(j, i)})
    IN  [k \in 1..Cardinality(live) |-> CHOOSE i \in live : rank(i) = k - 1]

\* CostBasisEngine._get_lots_in_order: the positions, in the asset's list, of
\* the lots with remaining > 0, in disposal order.  sorted() is stable, with
\* reverse=True too: lots with equal keys keep their list order.
GetLotsInOrder(L, m, asset) ==
    LET ls   == IF Upper(asset) \in DOMAIN L THEN L[Upper(asset)] ELSE <<>>
        live == {i \in 1..Len(ls) : Gt(ls[i].remaining, Zero)}
        Before(j, i) == \/ Precedes(m, ls[j], ls[i])
                        \/ /\ ~Precedes(m, ls[i], ls[j])
                           /\ j < i
        rank(i) == Cardinality({j \in live : j # i /\ Before(j, i)})
    IN  [k \in 1..Cardinality(live) |-> CHOOSE i \in live : rank(i) = k - 1]

\* a take of everything the lot still holds
TakeWholeLot(remaining, lot_remaining) == lot_remaining

\* a take that ignores what the lot still holds
TakeUnbounded(remaining, lot_remaining) == remaining

\* dispose: the amount taken from one lot
Take(remaining, lot_remaining) == PyMin(remaining, lot_remaining)

\* a fee share that deducts nothing
FeePortionNone(take, quantity, fees) == Zero

\* a fee share that charges the whole fee to every take
FeePortionWhole(take, quantity, fees) == fees

\* dispose: the share of the disposal fee carried by one take
FeePortion(take, quantity, fees) ==
    IF Gt(quantity, Zero) THEN Mul(Div(take, quantity), fees) ELSE Zero

\* a classification that needs more than LONG_TERM_DAYS days
IsLongTermStrict(acquired_date, disposed_date) ==
    DaysBetween(acquired_date, disposed_date) > LONG_TERM_DAYS

\* dispose: holding period classification
IsLongTerm(acquired_date, disposed_date) ==
    DaysBetween(acquired_date, disposed_date) >= LONG_TERM_DAYS

\* dispose: DisposalResult(...) from the amounts computed for one touched lot
ResultOf(lot, take, asset, disposed_date, proceeds, cost_basis) ==
    [asset |-> asset, quantity |-> take, proceeds |-> proceeds,
     cost_basis |-> cost_basis, gain_loss |-> Sub(proceeds, cost_basis),
     acquired_date |-> lot.acquired_date, disposed_date |-> disposed_date,
     is_long_term |-> IsLongTerm(lot.acquired_date, disposed_date),
     lot_id |-> lot.lot_id]

\* a result whose cost basis leaves the lot's acquisition fees out
MakeResultNoAcquisitionFees(lot, take, asset, quantity, proceeds_per_unit, disposed_date, fees) ==
    ResultOf(lot, take, asset, disposed_date,
             Sub(Mul(take, proceeds_per_unit), FeePortion(take, quantity, fees)),
             Mul(take, lot.cost_per_unit))

\* dispose: cost basis, fee share and proceeds of one take, and its result
MakeResult(lot, take, asset, quantity, proceeds_per_unit, disposed_date, fees) ==
    ResultOf(lot, take, asset, disposed_date,
             Sub(Mul(take, proceeds_per_unit), FeePortion(take, quantity, fees)),
             Mul(take, CostBasisPerUnit(lot)))

\* DisposalResult.holding_days
HoldingDays(r) == DaysBetween(r.acquired_date, r.disposed_date)

\* an iteration that decrements the lot by the amount still to dispose
TakeFromWrongDecrement(st, i, take, asset, quantity, proceeds_per_unit, disposed_date, fees) ==
    [ls |-> [st.ls EXCEPT ![i].remaining = Sub(st.ls[i].remaining, st.remaining)],
     remaining |-> Sub(st.remaining, take),
     results |-> Append(st.results,
                        MakeResult(st.ls[i], take, asset, quantity,
                                   proceeds_per_unit, disposed_date, fees))]

\* dispose: one iteration of the loop that takes from the lot at position i.
\* st = [ls: the asset's lots, remaining: still to dispose, results: so far]
TakeFrom(st, i, take, asset, quantity, proceeds_per_unit, disposed_date, fees) ==
    [ls |-> [st.ls EXCEPT ![i].remaining = Sub(st.ls[i].remaining, take)],
     remaining |-> Sub(st.remaining, take),
     results |-> Append(st.results,
                        MakeResult(st.ls[i], take, asset, quantity,
                                   proceeds_per_unit, disposed_date, fees))]

\* a loop without the break on remaining <= 0
RECURSIVE WalkNoBreak(_, _, _, _, _, _, _, _)
WalkNoBreak(st, order, k, asset, quantity, proceeds_per_unit, disposed_date, fees) ==
    IF k > Len(order) THEN st
    ELSE IF Le(st.ls[order[k]].remaining, Zero)
    THEN WalkNoBreak(st, order, k + 1, asset, quantity, proceeds_per_unit,
                     disposed_date, fees)
    ELSE WalkNoBreak(TakeFrom(st, order[k],
                              Take(st.remaining, st.ls[order[k]].remaining),
                              asset, quantity, proceeds_per_unit, disposed_date,
                              fees),
                     order, k + 1, asset, quantity, proceeds_per_unit,
                     disposed_date, fees)

\* dispose: the loop over the ordered lots, from position k of order on
RECURSIVE Walk(_, _, _, _, _, _, _, _)
Walk(st, order, k, asset, quantity, proceeds_per_unit, disposed_date, fees) ==
    IF k > Len(order) THEN st
    ELSE IF Le(st.remaining, Zero) THEN st
    ELSE IF Le(st.ls[order[k]].remaining, Zero)
    THEN Walk(st, order, k + 1, asset, quantity, proceeds_per_unit,
              disposed_date, fees)
    ELSE Walk(TakeFrom(st, order[k],
                       Take(st.remaining, st.ls[order[k]].remaining),
                       asset, quantity, proceeds_per_unit, disposed_date, fees),
              order, k + 1, asset, quantity, proceeds_per_unit, disposed_date,
              fees)

\* an availability check that never raises
InsufficientNever(quantity, available) == FALSE

\* dispose: the availability check that raises ValueError
Insufficient(quantity, available) == Gt(quantity, available)

\* an engine that drops the lots a disposal has emptied
DisposedDropsEmptyLots(L, D, asset, fin) ==
    [raised |-> FALSE,
     lots |-> IF asset \in DOMAIN L
              THEN [L EXCEPT ![asset] =
                       SelectSeq(fin.ls, LAMBDA l : Gt(l.remaining, Zero))]
              ELSE L,
     disposals |-> D \o fin.results,
     results |-> fin.results]

\* dispose: the engine once the loop has ended in fin, and the list returned
Disposed(L, D, asset, fin) ==
    [raised |-> FALSE,
     lots |-> IF asset \in DOMAIN L THEN [L EXCEPT ![asset] = fin.ls] ELSE L,
     disposals |-> D \o fin.results,
     results |-> fin.results]

\* CostBasisEngine.dispose on ledger L with recorded disposals D
DisposeOp(L, D, m, asset, quantity, proceeds_per_unit, disposed_date, fees) ==
    IF Insufficient(quantity, GetAvailable(L, Upper(asset)))
    THEN [raised |-> TRUE, lots |-> L, disposals |-> D, results |-> <<>>]
    ELSE Disposed(L, D, Upper(asset),
                  Walk([ls |-> IF Upper(asset) \in DOMAIN L
                               THEN L[Upper(asset)] ELSE <<>>,
                        remaining |-> quantity, results |-> <<>>],
                       GetLotsInOrder(L, m, Upper(asset)), 1, Upper(asset),
                       quantity, proceeds_per_unit, disposed_date, fees))

\* an add_lot that appends the lot to the list of every asset
AddLotOpEveryAsset(L, n, asset, quantity, cost_per_unit, acquired_date, fees) ==
    [a \in DOMAIN L |->
        Append(L[a], NewLot(Upper(asset), quantity, cost_per_unit,
                            acquired_date, fees, n + 1))]

\* an add_lot that numbers the lots of each asset on their own
AddLotOpPerAssetId(L, n, asset, quantity, cost_per_unit, acquired_date, fees) ==
    [L EXCEPT ![Upper(asset)] =
        Append(@, NewLot(Upper(asset), quantity, cost_per_unit, acquired_date,
                         fees, Len(@) + 1))]

\* CostBasisEngine.add_lot on ledger L with counter n
AddLotOp(L, n, asset, quantity, cost_per_unit, acquired_date, fees) ==
    [L EXCEPT ![Upper(asset)] =
        Append(@, NewLot(Upper(asset), quantity, cost_per_unit, acquired_date,
                         fees, n + 1))]

\* the arguments of a call
CallRecord(op, asset, quantity, price, date, fees) ==
    [op |-> op, asset |-> asset, quantity |-> quantity, price |-> price,
     date |-> date, fees |-> fees]

NoCall == CallRecord("none", "", Zero, Zero, 0, Zero)

\* ------------------------------------------------------------------- inputs
\* add_lot calls offered to the engine: <<asset, quantity, cost, date, fees>>
LotInputs ==
    { <<"BTC", Dec(1, 0),   Dec(4, 4),  Day(0),       Zero>>,
      <<"BTC", Dec(5, -1),  Dec(65, 3), Day(152),     Zero>>,
      <<"btc", Dec(25, -2), Dec(95, 3), Day(352),     Zero>>,
      <<"BTC", Dec(25, -2), Dec(4, 4),  Day(6),       Zero>>,
      <<"ETH", Dec(75, -2), Dec(65, 3), Day(6) + 1,   Dec(1, 1)>> }

\* dispose calls offered: <<asset, quantity, proceeds per unit, date, fees>>
DisposeInputs ==
    { <<"BTC", Dec(75, -2), Dec(1, 5),  Day(371),     Zero>>,
      <<"btc", Dec(75, -2), Dec(1, 5),  Day(371),     Dec(1, 1)>>,
      <<"eth", Dec(25, -2), Dec(4, 4),  Day(371),     Dec(1, 1)>>,
      <<"BTC", Dec(15, -1), Dec(65, 3), Day(370) + 1, Dec(1, 1)>>,
      <<"BTC", Dec(1, -1),  Dec(1, 5),  Day(371),     Zero>>,
      <<"BTC", Dec(12, -1), Dec(5, 4),  Day(371),     Dec(1, 1)>>,
      <<"ETH", Zero,        Dec(4, 4),  Day(371),     Dec(1, 1)>> }

\* --------------------------------------------------------------- classifier
\* a disposal set that takes a fee payment for a disposal
DisposalTypesWithFee == {"sell", "trade", "spend", "convert", "fee"}

DISPOSAL_TYPES == {"sell", "trade", "spend", "convert"}

\* an income set that takes a purchase for income
IncomeTypesWithBuy ==
    {"buy", "staking", "airdrop", "mining", "interest", "income"}

INCOME_TYPES == {"staking", "airdrop", "mining", "interest", "income"}

ACQUISITION_TYPES ==
    {"buy", "receive", "staking", "airdrop", "mining", "interest", "income"}

NON_TAXABLE_TYPES == {"transfer", "transfer_in", "transfer_out"}

\* an exclusion set that holds the dollar only
ExcludedDollarOnly == {"USD"}

\* the USD and stablecoin symbols calculate ignores
EXCLUDED_ASSETS == {"USD", "USDC", "USDT", "DAI", "BUSD"}

\* a transaction without a price: tx.get("price") is None
None == [none |-> TRUE]

Tx(date, type, asset, quantity, price, fee) ==
    [date |-> date, type |-> type, asset |-> asset, quantity |-> quantity,
     price |-> price, fee |-> fee]

\* a price test that lets a price of 0 through
MissingPriceNoneOnly(price) == price = None

\* calculate: price is None or price == 0
MissingPrice(price) == price = None \/ price = Zero

\* a calculate that walks the list as it was supplied
SortByDateNot(list) == list

\* calculate: sorted(transactions, key=lambda x: x["date"]), a stable sort
SortByDate(list) ==
    LET Before(j, i) == \/ list[j].date < list[i].date
                        \/ list[j].date = list[i].date /\ j < i
        rank(i) == Cardinality({j \in DOMAIN list : j # i /\ Before(j, i)})
    IN  [k \in 1..Len(list) |-> list[CHOOSE i \in DOMAIN list : rank(i) = k - 1]]

\* a classifier that hands the requested quantity on unclamped
ClampQtyNone(quantity, available) == quantity

\* calculate: the disposal quantity, cut down to what is available
ClampQty(quantity, available) ==
    IF Gt(quantity, available) THEN available ELSE quantity

\* calculate: the record appended to disposals for one DisposalResult
DisposalRecord(r) ==
    [date_acquired |-> r.acquired_date, date_sold |-> r.disposed_date,
     asset |-> r.asset, quantity |-> ToFloat(r.quantity),
     proceeds |-> ToFloat(r.proceeds), cost_basis |-> ToFloat(r.cost_basis),
     gain_loss |-> ToFloat(r.gain_loss), is_long_term |-> r.is_long_term,
     holding_days |-> HoldingDays(r), lot_id |-> r.lot_id]

\* calculate: the records of a dispose call's results, in order
Flatten(rs) == [k \in 1..Len(rs) |-> DisposalRecord(rs[k])]

\* calculate: the record appended to income_events
IncomeRecord(date, type, asset, quantity, cost_per_unit) ==
    [date |-> date, type |-> type, asset |-> asset,
     quantity |-> ToFloat(quantity),
     fair_market_value |-> ToFloat(Mul(quantity, cost_per_unit)),
     price_per_unit |-> ToFloat(cost_per_unit)]

\* a fold that nets the losses of a holding period into its gain bucket
RECURSIVE SumFieldNetted(_, _, _, _)
SumFieldNetted(D, n, field, bucket) ==
    IF n = 0 THEN Zero
    ELSE LET d    == D[n]
             keep == CASE bucket = "all" -> TRUE
                       [] bucket = "short_gain" -> ~d.is_long_term
                       [] bucket = "short_loss" -> FALSE
                       [] bucket = "long_gain" -> d.is_long_term
                       [] bucket = "long_loss" -> FALSE
         IN  IF keep THEN Add(SumFieldNetted(D, n - 1, field, bucket), d[field])
                     ELSE SumFieldNetted(D, n - 1, field, bucket)

\* sum(f(d) for d in D if keep(d)): a left fold from 0 over the first n of D
RECURSIVE SumField(_, _, _, _)
SumField(D, n, field, bucket) ==
    IF n = 0 THEN Zero
    ELSE LET d    == D[n]
             keep == CASE bucket = "all" -> TRUE
                       [] bucket = "short_gain" ->
                              ~d.is_long_term /\ Gt(d.gain_loss, Zero)
                       [] bucket = "short_loss" ->
                              ~d.is_long_term /\ Lt(d.gain_loss, Zero)
                       [] bucket = "long_gain" ->
                              d.is_long_term /\ Gt(d.gain_loss, Zero)
                       [] bucket = "long_loss" ->
                              d.is_long_term /\ Lt(d.gain_loss, Zero)
         IN  IF keep THEN Add(SumField(D, n - 1, field, bucket), d[field])
                     ELSE SumField(D, n - 1, field, bucket)

\* CostBasisEngine.get_summary
GetSummary(D) ==
    [total_proceeds   |-> SumField(D, Len(D), "proceeds", "all"),
     total_cost_basis |-> SumField(D, Len(D), "cost_basis", "all"),
     total_gain_loss  |-> SumField(D, Len(D), "gain_loss", "all"),
     short_term_gain  |-> SumField(D, Len(D), "gain_loss", "short_gain"),
     short_term_loss  |-> SumField(D, Len(D), "gain_loss", "short_loss"),
     long_term_gain   |-> SumField(D, Len(D), "gain_loss", "long_gain"),
     long_term_loss   |-> SumField(D, Len(D), "gain_loss", "long_loss"),
     disposal_count   |-> Len(D)]

\* a returned dictionary whose disposal_count is the length of the run's list
ReturnedCountsOwnList(sm, ds, inc, sk, m) ==
    [status |-> "returned",
     disposals |-> ds,
     income_events |-> inc,
     summary |-> [total_proceeds   |-> ToFloat(sm.total_proceeds),
                  total_cost_basis |-> ToFloat(sm.total_cost_basis),
                  net_gain_loss    |-> ToFloat(sm.total_gain_loss),
                  short_term_gain  |-> ToFloat(sm.short_term_gain),
                  short_term_loss  |-> ToFloat(sm.short_term_loss),
                  long_term_gain   |-> ToFloat(sm.long_term_gain),
                  long_term_loss   |-> ToFloat(sm.long_term_loss),
                  disposal_count   |-> Len(ds),
                  income_count     |-> Len(inc)],
     method |-> m,
     skipped_count |-> Len(sk)]

\* calculate: the dictionary returned
Returned(sm, ds, inc, sk, m) ==
    [status |-> "returned",
     disposals |-> ds,
     income_events |-> inc,
     summary |-> [total_proceeds   |-> ToFloat(sm.total_proceeds),
                  total_cost_basis |-> ToFloat(sm.total_cost_basis),
                  net_gain_loss    |-> ToFloat(sm.total_gain_loss),
                  short_term_gain  |-> ToFloat(sm.short_term_gain),
                  short_term_loss  |-> ToFloat(sm.short_term_loss),
                  long_term_gain   |-> ToFloat(sm.long_term_gain),
                  long_term_loss   |-> ToFloat(sm.long_term_loss),
                  disposal_count   |-> sm.disposal_count,
                  income_count     |-> Len(inc)],
     method |-> m,
     skipped_count |-> Len(sk)]

\* transactions offered to calculate
TxInputs ==
    { Tx(Day(0),   "buy",      "BTC",  Dec(1, 0),   Dec(4, 4),  Dec(1, 1)),
      Tx(Day(46),  "staking",  "ETH",  Dec(1, -1),  Dec(3001, 0), Zero),
      Tx(Day(152), "buy",      "btc",  Dec(5, -1),  Dec(65, 3), Dec(5, 0)),
      Tx(Day(371), "sell",     "BTC",  Dec(75, -2), Dec(95, 3), Dec(2, 1)),
      Tx(Day(152), "trade",    "btc",  Dec(25, -2), Dec(4, 4),  Zero),
      Tx(Day(0),   "transfer", "BTC",  Dec(1, 0),   Dec(4, 4),  Zero),
      Tx(Day(46),  "buy",      "usdc", Dec(1, 0),   Dec(1, 0),  Zero),
      Tx(Day(152), "sell",     "USDT", Dec(1, 0),   None,       Zero),
      Tx(Day(0),   "receive",  "BTC",  Dec(1, 0),   None,       Zero),
      Tx(Day(371), "spend",    "ETH",  Dec(1, -1),  Zero,       Zero),
      Tx(Day(46),  "airdrop",  "ETH",  Dec(1, -1),  Zero,       Zero),
      Tx(Day(152), "fee",      "BTC",  Dec(1, -1),  Dec(4, 4),  Zero) }

\* the transaction lists a run can be given
TxLists == UNION {[1..n -> TxInputs] : n \in 0..MaxTx}

\* ------------------------------------------------------------------ actions
\* CostBasisEngine.__init__, and the locals of calculate before a run
Init ==
    /\ method \in {Lower(m) : m \in MethodInputs}
    /\ lots = [s \in Symbols |-> <<>>]
    /\ lot_counter = 0
    /\ disposals = <<>>
    /\ calls = 0
    /\ last = NoCall
    /\ results = <<>>
    /\ raised = FALSE
    /\ pc = "idle"
    /\ txs = <<>>
    /\ idx = 0
    /\ out_disposals = <<>>
    /\ income_events = <<>>
    /\ skipped = <<>>
    /\ ret = [status |-> "none"]

\* engine.add_lot(asset, quantity, cost_per_unit, acquired_date, fees)
AddLot(asset, quantity, cost_per_unit, acquired_date, fees) ==
    /\ pc = "idle"
    /\ lot_counter + calls < MaxOps
    /\ lot_counter' = lot_counter + 1
    /\ lots' = AddLotOp(lots, lot_counter, asset, quantity, cost_per_unit,
                        acquired_date, fees)
    /\ last' = CallRecord("add_lot", asset, quantity, cost_per_unit,
                          acquired_date, fees)
    /\ UNCHANGED <<method, disposals, calls, results, raised>>
    /\ UNCHANGED classifier

\* engine.dispose(asset, quantity, proceeds_per_unit, disposed_date, fees)
Dispose(asset, quantity, proceeds_per_unit, disposed_date, fees) ==
    /\ pc = "idle"
    /\ lot_counter + calls < MaxOps
    /\ \E r \in {DisposeOp(lots, disposals, method, asset, quantity,
                           proceeds_per_unit, disposed_date, fees)} :
           /\ lots' = r.lots
           /\ disposals' = r.disposals
           /\ results' = r.results
           /\ raised' = r.raised
    /\ calls' = calls + 1
    /\ last' = CallRecord("dispose", asset, quantity, proceeds_per_unit,
                          disposed_date, fees)
    /\ UNCHANGED <<method, lot_counter>>
    /\ UNCHANGED classifier

Next ==
    \/ \E i \in LotInputs : AddLot(i[1], i[2], i[3], i[4], i[5])
    \/ \E i \in DisposeInputs : Dispose(i[1], i[2], i[3], i[4], i[5])

Spec == Init /\ [][Next]_vars

\* calculate, entered with a list of transactions: the sort before the loop
CalcStart(list) ==
    /\ pc = "idle"
    /\ pc' = "loop"
    /\ txs' = SortByDate(list)
    /\ idx' = 0
    /\ out_disposals' = <<>>
    /\ income_events' = <<>>
    /\ skipped' = <<>>
    /\ UNCHANGED <<ret, engine, frame>>

\* the transaction the loop is at
Cur == txs[idx + 1]

InLoop == pc = "loop" /\ idx < Len(txs)

\* loop body: an excluded asset or a non-taxable type (continue)
CalcIgnore ==
    /\ InLoop
    /\ \/ Upper(Cur.asset) \in EXCLUDED_ASSETS
       \/ Cur.type \in NON_TAXABLE_TYPES
    /\ idx' = idx + 1
    /\ UNCHANGED <<pc, txs, out_disposals, income_events, skipped, ret>>
    /\ UNCHANGED <<engine, frame>>

Taxable ==
    /\ InLoop
    /\ Upper(Cur.asset) \notin EXCLUDED_ASSETS
    /\ Cur.type \notin NON_TAXABLE_TYPES

\* loop body: an acquisition or disposal without a price, or an unknown type
CalcSkip ==
    /\ Taxable
    /\ \/ Cur.type \in ACQUISITION_TYPES /\ MissingPrice(Cur.price)
       \/ /\ Cur.type \notin ACQUISITION_TYPES
          /\ Cur.type \in DISPOSAL_TYPES
          /\ MissingPrice(Cur.price)
       \/ Cur.type \notin ACQUISITION_TYPES \cup DISPOSAL_TYPES
    /\ skipped' = Append(skipped, Cur)
    /\ idx' = idx + 1
    /\ UNCHANGED <<pc, txs, out_disposals, income_events, ret>>
    /\ UNCHANGED <<engine, frame>>

\* loop body: a priced acquisition (add_lot, and an income event if income)
CalcAcquire ==
    /\ Taxable
    /\ Cur.type \in ACQUISITION_TYPES
    /\ ~MissingPrice(Cur.price)
    /\ lot_counter' = lot_counter + 1
    /\ lots' = AddLotOp(lots, lot_counter, Upper(Cur.asset), Cur.quantity,
                        Cur.price, Cur.date, Cur.fee)
    /\ last' = CallRecord("add_lot", Upper(Cur.asset), Cur.quantity, Cur.price,
                          Cur.date, Cur.fee)
    /\ income_events' =
          IF Cur.type \in INCOME_TYPES
          THEN Append(income_events,
                      IncomeRecord(Cur.date, Cur.type, Upper(Cur.asset),
                                   Cur.quantity, Cur.price))
          ELSE income_events
    /\ idx' = idx + 1
    /\ UNCHANGED <<pc, txs, out_disposals, skipped, ret>>
    /\ UNCHANGED <<method, disposals, calls, results, raised>>

\* loop body: a priced disposal (clamp, then dispose unless nothing is left)
CalcDispose ==
    /\ Taxable
    /\ Cur.type \notin ACQUISITION_TYPES
    /\ Cur.type \in DISPOSAL_TYPES
    /\ ~MissingPrice(Cur.price)
    /\ \E asset \in {Upper(Cur.asset)} :
       \E quantity \in {ClampQty(Cur.quantity, GetAvailable(lots, asset))} :
           IF Gt(quantity, Zero)
           THEN \E r \in {DisposeOp(lots, disposals, method, asset, quantity,
                                    Cur.price, Cur.date, Cur.fee)} :
                    /\ lots' = r.lots
                    /\ disposals' = r.disposals
                    /\ results' = r.results
                    /\ raised' = r.raised
                    /\ calls' = calls + 1
                    /\ last' = CallRecord("dispose", asset, quantity, Cur.price,
                                          Cur.date, Cur.fee)
                    /\ IF r.raised
                       THEN /\ pc' = "aborted"
                            /\ UNCHANGED <<idx, out_disposals>>
                       ELSE /\ pc' = pc
                            /\ idx' = idx + 1
                            /\ out_disposals' = out_disposals \o Flatten(r.results)
           ELSE /\ idx' = idx + 1
                /\ UNCHANGED <<pc, out_disposals, lots, disposals, frame>>
    /\ UNCHANGED <<txs, income_events, skipped, ret, method, lot_counter>>

\* after the loop: get_summary and the returned dictionary
CalcReturn ==
    /\ pc = "loop"
    /\ idx = Len(txs)
    /\ pc' = "done"
    /\ ret' = Returned(GetSummary(disposals), out_disposals, income_events,
                       skipped, method)
    /\ UNCHANGED <<txs, idx, out_disposals, income_events, skipped>>
    /\ UNCHANGED <<engine, frame>>

NextCalc ==
    \/ \E list \in TxLists : CalcStart(list)
    \/ CalcIgnore
    \/ CalcSkip
    \/ CalcAcquire
    \/ CalcDispose
    \/ CalcReturn

\* one classifier run on a fresh engine
SpecCalc == Init /\ [][NextCalc]_vars

\* a constructor that goes on numbering lots where the last engine stopped
FreshEngineSharedCounter(m) ==
    [method |-> Lower(m), lots |-> [s \in Symbols |-> <<>>],
     lot_counter |-> lot_counter, disposals |-> <<>>]

\* CostBasisEngine(method): the fields of a new engine
FreshEngine(m) ==
    [method |-> Lower(m), lots |-> [s \in Symbols |-> <<>>],
     lot_counter |-> 0, disposals |-> <<>>]

\* calculate called again, after a run has returned, with the same sorted
\* list and a new engine of the same method
CalcReplay ==
    /\ pc = "done"
    /\ \E e \in {FreshEngine(method)} :
          /\ method' = e.method
          /\ lots' = e.lots
          /\ lot_counter' = e.lot_counter
          /\ disposals' = e.disposals
    /\ calls' = 0
    /\ last' = NoCall
    /\ results' = <<>>
    /\ raised' = FALSE
    /\ pc' = "loop"
    /\ txs' = SortByDate(txs)
    /\ idx' = 0
    /\ out_disposals' = <<>>
    /\ income_events' = <<>>
    /\ skipped' = <<>>
    /\ UNCHANGED ret

NextReplay ==
    \/ \E list \in TxLists : CalcStart(list)
    \/ CalcIgnore
    \/ CalcSkip
    \/ CalcAcquire
    \/ CalcDispose
    \/ CalcReturn
    \/ CalcReplay

\* a classifier run on a fresh engine, and its replays on fresh engines
SpecReplay == Init /\ [][NextReplay]_vars

\* loop body on engine e: a priced acquisition
AcquireOn(e, tx) ==
    [e EXCEPT !.lots = AddLotOp(e.lots, e.lot_counter, Upper(tx.asset),
                                tx.quantity, tx.price, tx.date, tx.fee),
              !.lot_counter = @ + 1]

\* loop body on engine e: a priced disposal of the clamped quantity
DisposeOn(e, tx, quantity) ==
    IF Gt(quantity, Zero)
    THEN \* the clamped dispose never raises
         [e EXCEPT !.lots = DisposeOp(e.lots, e.disposals, e.method,
                                      Upper(tx.asset), quantity, tx.price,
                                      tx.date, tx.fee).lots,
                   !.disposals = DisposeOp(e.lots, e.disposals, e.method,
                                           Upper(tx.asset), quantity, tx.price,
                                           tx.date, tx.fee).disposals]
    ELSE e

\* the loop body of calculate, as what it does to the engine it was given
StepOn(e, tx) ==
    IF Upper(tx.asset) \in EXCLUDED_ASSETS \/ tx.type \in NON_TAXABLE_TYPES
    THEN e
    ELSE IF tx.type \in ACQUISITION_TYPES
    THEN IF MissingPrice(tx.price) THEN e ELSE AcquireOn(e, tx)
    ELSE IF tx.type \in DISPOSAL_TYPES
    THEN IF MissingPrice(tx.price) THEN e
         ELSE DisposeOn(e, tx, ClampQty(tx.quantity,
                                        GetAvailable(e.lots, Upper(tx.asset))))
    ELSE e

\* the compare-methods loop: the engine of method m after calculate has walked
\* the first k transactions of the list with it, starting from a new engine
RECURSIVE RunOn(_, _, _)
RunOn(m, list, k) ==
    IF k = 0 THEN FreshEngine(m) ELSE StepOn(RunOn(m, list, k - 1), list[k])

\* the methods the comparison runs
CompareMethods == {"fifo", "lifo", "hifo"}

\* the transactions the comparison is run on: purchases and disposals of one
\* asset, one of them a sale that spans two lots and carries a fee of 51
CompareTx ==
    {t \in TxInputs : t.type \in {"buy", "trade", "sell"} /\ Upper(t.asset) = "BTC"}
       \cup { Tx(Day(371), "sell", "BTC", Dec(12, -1), Dec(5, 4), Dec(51, 0)) }

CompareLists == UNION {[1..n -> CompareTx] : n \in 0..MaxTx}

NextCompare ==
    \/ \E list \in CompareLists : CalcStart(list)
    \/ CalcAcquire
    \/ CalcDispose
    \/ CalcReturn

\* one classifier run of the comparison, on a fresh engine of any method
SpecCompare == Init /\ [][NextCompare]_vars

\* purchases and disposals of one asset, two of them on the same date
OrderTx ==
    {t \in TxInputs : t.type \in {"buy", "trade", "sell"} /\ Upper(t.asset) = "BTC"}

\* the lists of them a run can be given, in any order
OrderLists == UNION {[1..n -> OrderTx] : n \in 0..MaxTx}

NextOrder ==
    \/ \E list \in OrderLists : CalcStart(list)
    \/ CalcAcquire
    \/ CalcDispose
    \/ CalcReturn

\* one classifier run on a fresh engine over purchases and disposals supplied
\* in any order
SpecOrder == Init /\ [][NextOrder]_vars

\* the same, with a purchase of quantity 0 and a receipt at a negative price
\* (records with quantity >= 0 and fee >= 0 that the parser does not produce
\* but calculate accepts)
UnvalidatedTx ==
    OrderTx \cup { Tx(Day(0),  "buy",     "BTC", Zero,       Dec(4, 4),     Zero),
                   Tx(Day(46), "receive", "ETH", Dec(1, -1), Dec(-3001, 0), Zero) }

UnvalidatedLists == UNION {[1..n -> UnvalidatedTx] : n \in 0..MaxTx}

NextUnvalidated ==
    \/ \E list \in UnvalidatedLists : CalcStart(list)
    \/ CalcAcquire
    \/ CalcDispose
    \/ CalcReturn

\* one classifier run on a fresh engine over records nothing has validated
SpecUnvalidated == Init /\ [][NextUnvalidated]_vars

\* calls made on an engine before it is passed to calculate
PriorLotInputs ==
    {i \in LotInputs : i[1] = "BTC" /\ i[4] \in {Day(152), Day(6)}}

PriorDisposeInputs == {i \in DisposeInputs : i[2] = Dec(1, -1)}

\* the transaction lists given to calculate with an engine that was used
ReuseLists == UNION {[1..n -> TxInputs] : n \in 0..(MaxTx - 2)}

PriorAddLot(i) ==
    /\ lot_counter + calls < MaxOps - 2
    /\ AddLot(i[1], i[2], i[3], i[4], i[5])

PriorDispose(i) ==
    /\ lot_counter + calls < MaxOps - 2
    /\ Dispose(i[1], i[2], i[3], i[4], i[5])

NextReuse ==
    \/ \E i \in PriorLotInputs : PriorAddLot(i)
    \/ \E i \in PriorDisposeInputs : PriorDispose(i)
    \/ \E list \in ReuseLists : CalcStart(list)
    \/ CalcIgnore
    \/ CalcSkip
    \/ CalcAcquire
    \/ CalcDispose
    \/ CalcReturn

\* one classifier run on an engine that add_lot and dispose were called on
SpecReuse == Init /\ [][NextReuse]_vars

\* =================================================================== claims
\* exact value of a quantity, in hundredths of a unit
QtyUnits(x) == x.c * Pow10(x.e + 2)

\* exact sum of a quantity field over the first n records of a sequence
RECURSIVE SumUnits(_, _, _)
SumUnits(seq, field, n) ==
    IF n = 0 THEN 0 ELSE SumUnits(seq, field, n - 1) + QtyUnits(seq[n][field])

TotalUnits(seq, field) == SumUnits(seq, field, Len(seq))

DisposalsOf(a) == SelectSeq(disposals, LAMBDA d : d.asset = a)

AllLots == UNION {{lots[a][i] : i \in DOMAIN lots[a]} : a \in Symbols}

LotById(id) == CHOOSE l \in AllLots : l.lot_id = id

JustDisposed == last.op = "dispose" /\ ~raised

\* C1 (conservation): for every asset, the quantity acquired minus the quantity
\* remaining over its lots equals the quantity of all DisposalResults recorded
\* for it, after any sequence of add_lot and dispose calls, failing ones too.
C1_Conservation ==
    \A a \in Symbols :
        TotalUnits(lots[a], "quantity") - TotalUnits(lots[a], "remaining")
            = TotalUnits(DisposalsOf(a), "quantity")

\* a failed dispose after disposals that left a lot partly consumed
C1_Witness ==
    /\ last.op = "dispose" /\ raised
    /\ \E l \in AllLots : Lt(Zero, l.remaining) /\ Lt(l.remaining, l.quantity)
    /\ Len(disposals) >= 2

\* C2: every lot keeps 0 <= remaining <= quantity in every reachable state.
C2_RemainingInRange ==
    \A l \in AllLots :
        /\ 0 <= QtyUnits(l.remaining)
        /\ QtyUnits(l.remaining) <= QtyUnits(l.quantity)

\* a lot partly consumed by two disposals, with something left
C2_Witness ==
    \E l \in AllLots :
        /\ 0 < QtyUnits(l.remaining)
        /\ QtyUnits(l.remaining) < QtyUnits(l.quantity)
        /\ Cardinality({k \in DOMAIN disposals : disposals[k].lot_id = l.lot_id}) >= 2

\* C3: a dispose call asking for more than available(asset), an asset without
\* lots included, raises and leaves the engine as it was: no lot is
\* decremented, no DisposalResult is recorded.
C3_InsufficientFailsClean ==
    [][ ( /\ calls' = calls + 1
          /\ QtyUnits(last'.quantity)
                > TotalUnits(lots[Upper(last'.asset)], "remaining") )
        => ( /\ raised'
             /\ results' = <<>>
             /\ lots' = lots
             /\ disposals' = disposals
             /\ lot_counter' = lot_counter ) ]_vars

\* a failed dispose of an asset that has no lot, on an engine holding lots and
\* recorded disposals of another asset
C3_Witness ==
    /\ last.op = "dispose" /\ raised
    /\ lots[Upper(last.asset)] = <<>>
    /\ disposals # <<>>
    /\ \E l \in AllLots : Lt(Zero, l.remaining)

\* a priced disposal-class transaction on an asset that is not excluded
PricedDisposal(tx) ==
    /\ Upper(tx.asset) \notin EXCLUDED_ASSETS
    /\ tx.type \notin NON_TAXABLE_TYPES
    /\ tx.type \in DISPOSAL_TYPES
    /\ tx.price # None /\ tx.price # Zero

\* the DisposalResults a step has added to the engine's record
NewDisposals == SubSeq(disposals', Len(disposals) + 1, Len(disposals'))

\* C4: the classifier never triggers the matcher's insufficient-inventory
\* error; a disposal asking for more than is available disposes exactly the
\* available amount, and with nothing available it emits no record and leaves
\* the ledger as it was.
C4_ClassifierClamps ==
    [][ (InLoop /\ PricedDisposal(Cur))
        => LET a     == Upper(Cur.asset)
               avail == TotalUnits(lots[a], "remaining")
           IN  /\ pc' = "loop" /\ idx' = idx + 1 /\ ~raised'
               /\ QtyUnits(Cur.quantity) > avail
                  => /\ TotalUnits(lots'[a], "remaining") = 0
                     /\ TotalUnits(NewDisposals, "quantity") = avail
                     /\ Len(out_disposals') - Len(out_disposals)
                            = Len(NewDisposals)
                     /\ avail = 0 => /\ lots' = lots
                                     /\ disposals' = disposals
                                     /\ out_disposals' = out_disposals ]_vars

\* the loop just after a disposal that was clamped to a positive amount
C4_Witness ==
    /\ pc = "loop" /\ idx > 0
    /\ PricedDisposal(txs[idx])
    /\ last.op = "dispose" /\ last.date = txs[idx].date
    /\ 0 < QtyUnits(last.quantity)
    /\ QtyUnits(last.quantity) < QtyUnits(txs[idx].quantity)
    /\ out_disposals # <<>>

\* C5 (ordering correctness): in the result list of one dispose call the
\* acquired dates are non-decreasing under fifo and non-increasing under lifo,
\* and under hifo the touched lots' cost_basis_per_unit is non-increasing.
C5_OrderingCorrect ==
    \A k \in 1..(Len(results) - 1) :
        /\ method = "fifo" =>
               results[k].acquired_date <= results[k + 1].acquired_date
        /\ method = "lifo" =>
               results[k].acquired_date >= results[k + 1].acquired_date
        /\ method = "hifo" =>
               Ge(CostBasisPerUnit(LotById(results[k].lot_id)),
                  CostBasisPerUnit(LotById(results[k + 1].lot_id)))

\* a hifo disposal that spans two lots, the dearer and later acquired one first
C5_Witness ==
    /\ method = "hifo" /\ JustDisposed /\ Len(results) >= 2
    /\ results[1].acquired_date > results[2].acquired_date
    /\ Gt(CostBasisPerUnit(LotById(results[1].lot_id)),
          CostBasisPerUnit(LotById(results[2].lot_id)))

\* C6: a successful dispose with 0 < quantity <= available allocates the whole
\* request: each touched lot gives min(still to dispose, what the lot held),
\* the results' quantities sum to the requested quantity, and every touched lot
\* but possibly the last is left with remaining = 0.
C6_WholeRequestAllocated ==
    (JustDisposed /\ QtyUnits(last.quantity) > 0)
    => /\ TotalUnits(results, "quantity") = QtyUnits(last.quantity)
       /\ \A k \in DOMAIN results :
            LET lot  == LotById(results[k].lot_id)
                held == QtyUnits(lot.remaining) + QtyUnits(results[k].quantity)
                todo == QtyUnits(last.quantity) - SumUnits(results, "quantity", k - 1)
            IN  /\ QtyUnits(results[k].quantity) = Min2(todo, held)
                /\ k < Len(results) => QtyUnits(lot.remaining) = 0

\* a disposal spanning lots that leaves the last one walked partly consumed
C6_Witness ==
    /\ JustDisposed /\ Len(results) >= 2
    /\ QtyUnits(LotById(results[Len(results)].lot_id).remaining) > 0
    /\ QtyUnits(LotById(results[1].lot_id).remaining) = 0

\* C7: a dispose call emits exactly one DisposalResult per lot it touches, in
\* the order the lots were walked: no lot id twice, no result of quantity 0,
\* and a quantity equal to the first candidate lot's remaining yields a single
\* result and leaves that lot at remaining 0.
C7_OneResultPerLot ==
    [][ (calls' = calls + 1 /\ ~raised')
        => LET a     == Upper(last'.asset)
               order == GetLotsInOrder(lots, method, a)
               n     == Len(results')
           IN  /\ n <= Len(order)
               /\ \A k \in 1..n :
                    /\ results'[k].lot_id = lots[a][order[k]].lot_id
                    /\ QtyUnits(results'[k].quantity) > 0
               /\ \A j, k \in 1..n :
                    j # k => results'[j].lot_id # results'[k].lot_id
               /\ {i \in DOMAIN lots[a] : lots'[a][i] # lots[a][i]}
                     = {order[k] : k \in 1..n}
               /\ disposals' = disposals \o results'
               /\ (Len(order) > 0 /\ lots[a][order[1]].remaining = last'.quantity)
                  => /\ n = 1
                     /\ lots'[a][order[1]].remaining = Zero ]_vars

\* a disposal equal to what an already partly consumed lot still held
C7_Witness ==
    /\ JustDisposed /\ Len(results) = 1
    /\ results[1].quantity = last.quantity
    /\ LotById(results[1].lot_id).remaining = Zero
    /\ QtyUnits(LotById(results[1].lot_id).quantity) > QtyUnits(last.quantity)

\* C8 (long-term boundary): a DisposalResult is long-term exactly when the
\* whole days from the lot's acquisition to the disposal are >= 365.
C8_LongTermBoundary ==
    \A k \in DOMAIN disposals :
        LET d == disposals[k]
        IN  /\ d.acquired_date = LotById(d.lot_id).acquired_date
            /\ d.is_long_term
                 <=> (d.disposed_date - d.acquired_date
                         >= LONG_TERM_DAYS * TicksPerDay)

\* one result held exactly 365 days (long-term), another 364 whole days (short)
C8_Witness ==
    \E j, k \in DOMAIN disposals :
        /\ disposals[j].disposed_date - disposals[j].acquired_date
              = LONG_TERM_DAYS * TicksPerDay
        /\ disposals[j].is_long_term
        /\ DaysBetween(disposals[k].acquired_date, disposals[k].disposed_date)
              = LONG_TERM_DAYS - 1
        /\ ~disposals[k].is_long_term

\* exact value of an amount in 10^-PREC units, and in hundredths
FineUnits(x) == x.c * Pow10(x.e + PREC)

Cents(x) == x.c * Pow10(x.e + 2)

\* the fee share dispose computed for result k of the last call
FeeShare(k) == FeePortion(results[k].quantity, last.quantity, last.fees)

RECURSIVE SumShares(_)
SumShares(n) == IF n = 0 THEN 0 ELSE SumShares(n - 1) + FineUnits(FeeShare(n))

RECURSIVE SumCents(_, _, _)
SumCents(seq, field, n) ==
    IF n = 0 THEN 0 ELSE SumCents(seq, field, n - 1) + Cents(seq[n][field])

\* quantity * proceeds_per_unit - fees of the last call, exactly, in hundredths
NetProceedsCents ==
    QtyUnits(last.quantity) * (last.price.c * Pow10(last.price.e))
        - Cents(last.fees)

GrossPlusFeeCents ==
    QtyUnits(last.quantity) * (last.price.c * Pow10(last.price.e))
        + Cents(last.fees)

\* C9 as stated: the fee shares of one successful dispose call sum to the fee
\* F, so its total proceeds are quantity * proceeds_per_unit - F.
C9_FeeSharesSumExactly ==
    (JustDisposed /\ QtyUnits(last.quantity) > 0)
    => /\ SumShares(Len(results)) = FineUnits(last.fees)
       /\ SumCents(results, "proceeds", Len(results)) = NetProceedsCents

\* C9 (fee proportionality), amended: each fee share is (take / quantity) * F
\* and the shares sum to F, and the total proceeds equal
\* quantity * proceeds_per_unit - F, up to the rounding of the Decimal
\* arithmetic: a relative error of at most 10^(2 - precision).
C9_FeeSharesSumWithinRounding ==
    (JustDisposed /\ QtyUnits(last.quantity) > 0)
    => /\ \A k \in DOMAIN results :
            Abs(FineUnits(FeeShare(k)) * QtyUnits(last.quantity)
                  - QtyUnits(results[k].quantity) * FineUnits(last.fees))
              <= (QtyUnits(results[k].quantity) * FineUnits(last.fees))
                    \div Pow10(PREC - 2)
       /\ Abs(SumShares(Len(results)) - FineUnits(last.fees))
            <= FineUnits(last.fees) \div Pow10(PREC - 2)
       /\ Abs(SumCents(results, "proceeds", Len(results)) - NetProceedsCents)
            <= GrossPlusFeeCents \div Pow10(PREC - 2)

\* a disposal with a fee spanning three lots whose shares do not add up to it
C9_Witness ==
    /\ JustDisposed /\ Len(results) = 3
    /\ last.fees # Zero
    /\ SumShares(Len(results)) # FineUnits(last.fees)

\* the two lots of the scenario, untouched, as the asset's whole list
ScenarioLots(ls) ==
    /\ Len(ls) = 2
    /\ ls[1].quantity = Dec(1, 0) /\ ls[1].cost_per_unit = Dec(4, 4)
    /\ ls[1].acquired_date = Day(0) /\ ls[1].remaining = Dec(1, 0)
    /\ ls[1].fees = Zero
    /\ ls[2].quantity = Dec(5, -1) /\ ls[2].cost_per_unit = Dec(65, 3)
    /\ ls[2].acquired_date = Day(152) /\ ls[2].remaining = Dec(5, -1)
    /\ ls[2].fees = Zero

\* the scenario's disposal: 0.75 @ 100000 on day +371, earliest-first
ScenarioStep ==
    /\ method = "fifo"
    /\ ScenarioLots(lots["BTC"])
    /\ calls' = calls + 1
    /\ Upper(last'.asset) = "BTC"
    /\ last'.quantity = Dec(75, -2)
    /\ last'.price = Dec(1, 5)
    /\ last'.date = Day(371)

\* what the scenario's results are, apart from their number
ScenarioOutcome ==
    /\ ~raised'
    /\ results'[1].lot_id = lots["BTC"][1].lot_id
    /\ results'[1].quantity = Dec(75, -2)
    /\ results'[1].cost_basis = Dec(3, 4)
    /\ results'[1].proceeds = Sub(Dec(75, 3), last'.fees)
    /\ results'[1].gain_loss = Sub(Dec(45, 3), last'.fees)
    /\ results'[1].is_long_term
    /\ lots'["BTC"][1].remaining = Dec(25, -2)
    /\ lots'["BTC"][2].remaining = Dec(5, -1)

\* C10 as stated: the scenario yields two results.
C10_ScenarioTwoResults ==
    [][ ScenarioStep => (ScenarioOutcome /\ Len(results') = 2) ]_vars

\* C10 (scenario), amended: it yields one result, the 0.75 taken entirely from
\* the first lot, cost_basis 30000, proceeds 75000 minus the fee, gain_loss
\* 45000 minus the fee, long-term.
C10_ScenarioOneResult ==
    [][ ScenarioStep => (ScenarioOutcome /\ Len(results') = 1) ]_vars

\* the engine right after the scenario's disposal, made with a fee
C10_Witness ==
    /\ method = "fifo" /\ JustDisposed
    /\ last.quantity = Dec(75, -2) /\ last.price = Dec(1, 5)
    /\ last.date = Day(371) /\ last.fees = Dec(1, 1)
    /\ Len(lots["BTC"]) = 2
    /\ lots["BTC"][1].cost_per_unit = Dec(4, 4)
    /\ lots["BTC"][1].remaining = Dec(25, -2)
    /\ lots["BTC"][2].cost_per_unit = Dec(65, 3)
    /\ lots["BTC"][2].remaining = Dec(5, -1)
    /\ disposals = results /\ Len(results) = 1
    /\ results[1].gain_loss = Dec(4499, 1)

\* lot i of the list ls has the strictly highest cost_basis_per_unit
StrictlyDearest(ls, i) ==
    \A j \in DOMAIN ls :
        j # i => Gt(CostBasisPerUnit(ls[i]), CostBasisPerUnit(ls[j]))

\* C11: under hifo, a disposal of a positive quantity smaller than the
\* remaining of the lot with the strictly highest cost_basis_per_unit is taken
\* entirely from that lot: one result, and every other lot is unchanged.
C11_HifoTopLotOnly ==
    [][ (method = "hifo" /\ calls' = calls + 1)
        => LET a  == Upper(last'.asset)
               ls == lots[a]
           IN  \A i \in DOMAIN ls :
                 ( /\ StrictlyDearest(ls, i)
                   /\ QtyUnits(last'.quantity) > 0
                   /\ QtyUnits(last'.quantity) < QtyUnits(ls[i].remaining) )
                 => /\ ~raised'
                    /\ Len(results') = 1
                    /\ results'[1].lot_id = ls[i].lot_id
                    /\ results'[1].quantity = last'.quantity
                    /\ QtyUnits(lots'[a][i].remaining)
                          = QtyUnits(ls[i].remaining) - QtyUnits(last'.quantity)
                    /\ \A j \in DOMAIN ls : j # i => lots'[a][j] = ls[j]
                    /\ \A b \in Symbols : b # a => lots'[b] = lots[b] ]_vars

\* lots at costs 40000, 65000 and 95000, and a hifo disposal that touched the
\* 95000 lot only
C11_Witness ==
    /\ method = "hifo" /\ JustDisposed
    /\ Len(lots["BTC"]) = 3
    /\ {lots["BTC"][i].cost_per_unit : i \in 1..3}
          = {Dec(4, 4), Dec(65, 3), Dec(95, 3)}
    /\ Len(results) = 1
    /\ LotById(results[1].lot_id).cost_per_unit = Dec(95, 3)
    /\ \A i \in 1..3 :
          lots["BTC"][i].cost_per_unit # Dec(95, 3)
             => lots["BTC"][i].remaining = lots["BTC"][i].quantity

\* an acquisition-class or disposal-class transaction on an asset that is not
\* excluded, whose price is missing or 0
Unpriced(tx) ==
    /\ Upper(tx.asset) \notin EXCLUDED_ASSETS
    /\ tx.type \notin NON_TAXABLE_TYPES
    /\ tx.type \in ACQUISITION_TYPES \cup DISPOSAL_TYPES
    /\ (tx.price = None \/ tx.price = Zero)

\* C12: the classifier skips an acquisition-class or disposal-class
\* transaction whose price is missing or 0: no lot is created or decremented,
\* no disposal or income record is emitted, the skip count grows by exactly
\* one and the loop goes on to the next transaction.
C12_UnpricedSkipped ==
    [][ (InLoop /\ Unpriced(Cur))
        => /\ lots' = lots
           /\ lot_counter' = lot_counter
           /\ disposals' = disposals
           /\ calls' = calls
           /\ out_disposals' = out_disposals
           /\ income_events' = income_events
           /\ Len(skipped') = Len(skipped) + 1
           /\ pc' = "loop" /\ idx' = idx + 1 ]_vars

\* a run that skipped an acquisition with price 0 and a disposal with price 0
\* of an asset the ledger holds, and went on
C12_Witness ==
    /\ pc = "loop" /\ idx = 3
    /\ Len(skipped) = 2
    /\ \E j, k \in 1..2 :
          /\ skipped[j].type \in ACQUISITION_TYPES /\ skipped[j].price = Zero
          /\ skipped[k].type \in DISPOSAL_TYPES /\ skipped[k].price = Zero
          /\ \E i \in DOMAIN lots[Upper(skipped[k].asset)] :
                Gt(lots[Upper(skipped[k].asset)][i].remaining, Zero)
    /\ lot_counter = 1

\* a transaction on a fiat or stable symbol, or a non-taxable transfer
FiatOrTransfer(tx) ==
    \/ Upper(tx.asset) \in {"USD", "USDC", "USDT", "DAI", "BUSD"}
    \/ tx.type \in {"transfer", "transfer_in", "transfer_out"}

\* C13: the classifier ignores a transaction on an asset of the fiat/stable
\* exclusion set, whatever its type or price, and a non-taxable transfer: the
\* ledger, the disposal list, the income list and the skip count stay as they
\* were.
C13_ExcludedIgnored ==
    [][ (InLoop /\ FiatOrTransfer(Cur))
        => /\ lots' = lots
           /\ lot_counter' = lot_counter
           /\ disposals' = disposals
           /\ calls' = calls
           /\ out_disposals' = out_disposals
           /\ income_events' = income_events
           /\ skipped' = skipped
           /\ pc' = "loop" /\ idx' = idx + 1 ]_vars

\* a run that, holding a lot, has passed an unpriced sale of a stablecoin and
\* a priced stablecoin buy or a transfer of the held asset, recording nothing
C13_Witness ==
    /\ pc = "loop" /\ idx = 3 /\ Len(txs) = 3
    /\ ~FiatOrTransfer(txs[1])
    /\ FiatOrTransfer(txs[2]) /\ FiatOrTransfer(txs[3])
    /\ \E k \in 2..3 : txs[k].type = "sell" /\ txs[k].price = None
    /\ \E k \in 2..3 :
          \/ txs[k].type = "buy" /\ txs[k].price # None
          \/ txs[k].type = "transfer" /\ txs[k].asset = "BTC"
    /\ lot_counter = 1 /\ Len(lots["BTC"]) = 1
    /\ lots["BTC"][1].remaining = lots["BTC"][1].quantity
    /\ skipped = <<>> /\ out_disposals = <<>> /\ income_events = <<>>

\* a priced acquisition-class transaction on an asset that is not excluded
PricedAcquisition(tx) ==
    /\ ~FiatOrTransfer(tx)
    /\ tx.type \in {"buy", "receive", "staking", "airdrop", "mining",
                    "interest", "income"}
    /\ tx.price # None /\ tx.price # Zero

IncomeSubtype(tx) ==
    tx.type \in {"staking", "airdrop", "mining", "interest", "income"}

\* exact value of an amount in thousandths
Mills(x) == x.c * Pow10(x.e + 3)

\* quantity * price of a transaction, exactly, in thousandths
ExactValueMills(tx) == tx.quantity.c * tx.price.c * Pow10(tx.quantity.e + tx.price.e + 3)

\* the record added last to income_events by a step
NewIncome == income_events'[Len(income_events')]

UnknownType(tx) ==
    /\ ~FiatOrTransfer(tx)
    /\ tx.type \notin {"buy", "receive", "staking", "airdrop", "mining",
                       "interest", "income", "sell", "trade", "spend", "convert"}

\* the transactions among the first n of the list that count as skipped
SkippedAmong(list, n) ==
    {k \in 1..n :
        /\ ~FiatOrTransfer(list[k])
        /\ \/ UnknownType(list[k])
           \/ /\ list[k].type \in {"buy", "receive", "staking", "airdrop",
                                    "mining", "interest", "income", "sell",
                                    "trade", "spend", "convert"}
              /\ (list[k].price = None \/ list[k].price = Zero)}

\* C15: skipped_count is exactly the number of transactions on a non-excluded
\* asset, not transfers, that are acquisition/disposal-class without a price
\* or of an unknown type; an unknown-type transaction changes neither the
\* ledger nor the disposal or income lists.
C15_SkippedCountExact ==
    [][ /\ pc' = "loop"
           => Len(skipped') = Cardinality(SkippedAmong(txs', idx'))
        /\ pc' = "done"
           => ret'.skipped_count = Cardinality(SkippedAmong(txs', Len(txs')))
        /\ (InLoop /\ UnknownType(Cur))
           => /\ lots' = lots
              /\ lot_counter' = lot_counter
              /\ disposals' = disposals
              /\ calls' = calls
              /\ out_disposals' = out_disposals
              /\ income_events' = income_events
              /\ skipped' = Append(skipped, Cur)
              /\ pc' = "loop" /\ idx' = idx + 1 ]_vars

\* a finished run over a purchase, a fee payment in the asset bought and an
\* unpriced receipt: one untouched lot, two skipped
C15_Witness ==
    /\ pc = "done" /\ Len(txs) = 3
    /\ \E k \in 1..3 : UnknownType(txs[k]) /\ Upper(txs[k].asset) = "BTC"
    /\ \E k \in 1..3 : txs[k].type = "receive" /\ txs[k].price = None
    /\ Len(lots["BTC"]) = 1
    /\ lots["BTC"][1].remaining = lots["BTC"][1].quantity
    /\ ret.skipped_count = 2
    /\ ret.disposals = <<>>

\* a priced disposal asking for more than the ledger holds of the asset
ClampedDisposal(tx) ==
    /\ PricedDisposal(tx)
    /\ QtyUnits(tx.quantity) > TotalUnits(lots[Upper(tx.asset)], "remaining")

\* one of the counts of the returned result grows in the step
SomeCountGrows ==
    \/ Len(skipped') > Len(skipped)
    \/ Len(disposals') > Len(disposals)
    \/ Len(out_disposals') > Len(out_disposals)
    \/ Len(income_events') > Len(income_events)

\* C16: every data-quality issue the classifier meets (missing price, unknown
\* type, clamped disposal) is absorbed without aborting the run and shows in
\* a count of the returned result; a clamped disposal in particular.
C16_IssuesSurfacedInCounts ==
    [][ (InLoop /\ (Unpriced(Cur) \/ UnknownType(Cur) \/ ClampedDisposal(Cur)))
        => /\ pc' = "loop" /\ idx' = idx + 1
           /\ SomeCountGrows ]_vars

\* exact sum of a field, in thousandths, over the first n records of a list
RECURSIVE SumMills(_, _, _)
SumMills(seq, field, n) ==
    IF n = 0 THEN 0 ELSE SumMills(seq, field, n - 1) + Mills(seq[n][field])

\* the same sum over the magnitudes
RECURSIVE SumAbsMills(_, _, _)
SumAbsMills(seq, field, n) ==
    IF n = 0 THEN 0
    ELSE SumAbsMills(seq, field, n - 1) + Abs(Mills(seq[n][field]))

\* the summary total is the sum of the field over the returned list
TotalIsSum(total, field) ==
    Mills(ret.summary[total]) = SumMills(ret.disposals, field, Len(ret.disposals))

\* the same up to the rounding of the float conversions
TotalNearSum(total, field) ==
    Abs(Mills(ret.summary[total])
          - SumMills(ret.disposals, field, Len(ret.disposals)))
      <= (SumAbsMills(ret.disposals, field, Len(ret.disposals))
            + Abs(Mills(ret.summary[total]))) \div Pow10(FloatPrec - 1)

\* C17 as stated: the returned summary is folded from the returned disposal
\* records, for any engine passed to calculate: disposal_count is the length
\* of the list and the totals are the sums of its fields.
C17_SummaryOfReturnedList ==
    pc = "done"
    => /\ ret.summary.disposal_count = Len(ret.disposals)
       /\ TotalIsSum("total_proceeds", "proceeds")
       /\ TotalIsSum("total_cost_basis", "cost_basis")
       /\ TotalIsSum("net_gain_loss", "gain_loss")

\* C17, amended: the returned summary is folded from every result the engine
\* passed to calculate has recorded, the returned list being the last of them;
\* for an engine without earlier results disposal_count is the length of the
\* returned list and the totals are the sums of its fields up to the rounding
\* of the float conversions.
C17_SummaryOfEngineRecord ==
    pc = "done"
    => /\ ret.summary.disposal_count = Len(disposals)
       /\ Len(ret.disposals) <= Len(disposals)
       /\ \A k \in DOMAIN ret.disposals :
             ret.disposals[k].lot_id
                = disposals[Len(disposals) - Len(ret.disposals) + k].lot_id
       /\ Len(ret.disposals) = Len(disposals)
          => /\ TotalNearSum("total_proceeds", "proceeds")
             /\ TotalNearSum("total_cost_basis", "cost_basis")
             /\ TotalNearSum("net_gain_loss", "gain_loss")

\* a run that returned one disposal record on an engine that had recorded a
\* result before
C17_Witness ==
    /\ pc = "done"
    /\ Len(ret.disposals) = 1
    /\ ret.summary.disposal_count = 2

\* the recorded results of a holding period with a gain (sign 1) or a loss
\* (sign -1)
Bucket(long, sign) ==
    SelectSeq(disposals,
              LAMBDA d : d.is_long_term = long /\ Sign(d.gain_loss) = sign
                         /\ d.gain_loss # Zero)

\* exact sum of gain_loss over a bucket, in thousandths
BucketMills(long, sign) ==
    SumMills(Bucket(long, sign), "gain_loss", Len(Bucket(long, sign)))

\* exact sum of a field, and of its magnitudes, over all recorded results
AllMills(field) == SumMills(disposals, field, Len(disposals))

AllAbsMills(field) == SumAbsMills(disposals, field, Len(disposals))

\* the engine summary of the current record
Summary == GetSummary(disposals)

\* C18 as stated: gains and losses are never netted within a bucket (gain
\* buckets >= 0, loss buckets <= 0), the four buckets sum to total_gain_loss,
\* total_gain_loss = total_proceeds - total_cost_basis, and disposal_count is
\* the number of recorded results.
C18_SummaryIdentitiesExact ==
    /\ Summary.short_term_gain.c >= 0 /\ Summary.long_term_gain.c >= 0
    /\ Summary.short_term_loss.c <= 0 /\ Summary.long_term_loss.c <= 0
    /\ Mills(Summary.short_term_gain) + Mills(Summary.short_term_loss)
          + Mills(Summary.long_term_gain) + Mills(Summary.long_term_loss)
          = Mills(Summary.total_gain_loss)
    /\ Mills(Summary.total_gain_loss)
          = Mills(Summary.total_proceeds) - Mills(Summary.total_cost_basis)
    /\ Summary.disposal_count = Len(disposals)

\* the rounding allowed to a Decimal sum of n terms of total magnitude m
Slack(n, m) == n * (m \div Pow10(PREC - 2))

\* C18, amended: the engine summary folds every recorded DisposalResult
\* without netting within a bucket: each bucket is the sum of the gains (or
\* losses) of its holding period, gain buckets >= 0, loss buckets <= 0,
\* disposal_count is the number of recorded results, and the four buckets
\* sum to total_gain_loss, and total_gain_loss = total_proceeds -
\* total_cost_basis, up to the rounding of the Decimal sums.
C18_SummaryIdentitiesRounded ==
    LET n == Len(disposals)
    IN  /\ Summary.short_term_gain.c >= 0 /\ Summary.long_term_gain.c >= 0
        /\ Summary.short_term_loss.c <= 0 /\ Summary.long_term_loss.c <= 0
        /\ Summary.disposal_count = n
        /\ Abs(Mills(Summary.short_term_gain) - BucketMills(FALSE, 1))
              <= Slack(n, BucketMills(FALSE, 1))
        /\ Abs(Mills(Summary.short_term_loss) - BucketMills(FALSE, -1))
              <= Slack(n, -BucketMills(FALSE, -1))
        /\ Abs(Mills(Summary.long_term_gain) - BucketMills(TRUE, 1))
              <= Slack(n, BucketMills(TRUE, 1))
        /\ Abs(Mills(Summary.long_term_loss) - BucketMills(TRUE, -1))
              <= Slack(n, -BucketMills(TRUE, -1))
        /\ Abs(Mills(Summary.short_term_gain) + Mills(Summary.short_term_loss)
                + Mills(Summary.long_term_gain) + Mills(Summary.long_term_loss)
                - Mills(Summary.total_gain_loss))
              <= Slack(n, AllAbsMills("gain_loss"))
        /\ Abs(Mills(Summary.total_gain_loss)
                - (Mills(Summary.total_proceeds) - Mills(Summary.total_cost_basis)))
              <= Slack(n, AllAbsMills("proceeds") + AllAbsMills("cost_basis"))

\* a record with a short-term loss and a long-term gain whose totals do not add
\* up exactly
C18_Witness ==
    /\ Len(disposals) >= 2
    /\ Summary.short_term_loss.c < 0
    /\ Summary.long_term_gain.c > 0
    /\ Mills(Summary.total_gain_loss)
          # Mills(Summary.total_proceeds) - Mills(Summary.total_cost_basis)

\* the places of the ledger L that hold a lot
Places(L) == UNION {{<<a, i>> : i \in DOMAIN L[a]} : a \in Symbols}

\* C19: lot ids come from a counter that only grows and is never reset: all
\* lots of an engine, across assets, have distinct ids, a lot created later
\* has a larger id, and no call (a dispose that consumes a lot fully or
\* fails included) frees or changes an id.
C19_LotIdsMonotonic ==
    [][ /\ lot_counter' >= lot_counter
        /\ \A p \in Places(lots) :
              /\ p \in Places(lots')
              /\ lots'[p[1]][p[2]].lot_id = lots[p[1]][p[2]].lot_id
        /\ \A p \in Places(lots') \ Places(lots) :
              /\ lots'[p[1]][p[2]].lot_id > lot_counter
              /\ \A q \in Places(lots) :
                    lots'[p[1]][p[2]].lot_id > lots[q[1]][q[2]].lot_id
        /\ \A p, q \in Places(lots') :
              p # q => lots'[p[1]][p[2]].lot_id # lots'[q[1]][q[2]].lot_id
        /\ \A p \in Places(lots') : lots'[p[1]][p[2]].lot_id <= lot_counter'
        /\ calls' = calls + 1 => lot_counter' = lot_counter ]_vars

\* a lot added after two lots were consumed to the last unit gets the id 3
C19_Witness ==
    /\ last.op = "add_lot" /\ lot_counter = 3
    /\ \E p, q \in Places(lots) :
          /\ p # q
          /\ lots[p[1]][p[2]].remaining = Zero
          /\ lots[q[1]][q[2]].remaining = Zero
          /\ lots[p[1]][p[2]].lot_id = 1 /\ lots[q[1]][q[2]].lot_id = 2
    /\ \E p \in Places(lots) :
          /\ lots[p[1]][p[2]].lot_id = 3
          /\ lots[p[1]][p[2]].remaining = lots[p[1]][p[2]].quantity

\* C20 (idempotent replay): a second run of the classifier on the same sorted
\* list against a fresh engine of the same method returns what the first run
\* returned: the same disposal list, income list, summary and skip count.
C20_ReplayIdentical ==
    [][ (pc = "loop" /\ pc' = "done" /\ ret.status = "returned")
        => /\ ret'.disposals = ret.disposals
           /\ ret'.income_events = ret.income_events
           /\ ret'.summary = ret.summary
           /\ ret'.skipped_count = ret.skipped_count
           /\ ret'.method = ret.method ]_vars

\* a replay at the end of its loop, having rebuilt the disposal records, the
\* income event and the skip of the first run
C20_Witness ==
    /\ pc = "loop" /\ idx = Len(txs) /\ ret.status = "returned"
    /\ Len(ret.disposals) >= 1
    /\ out_disposals = ret.disposals
    /\ lot_counter >= 1
    /\ \/ Len(ret.income_events) >= 1 /\ income_events = ret.income_events
       \/ ret.skipped_count >= 1 /\ Len(skipped) = ret.skipped_count

\* the orderings of n positions
Orderings(n) ==
    {p \in [1..n -> 1..n] : \A i, j \in 1..n : i # j => p[i] # p[j]}

\* list L2 holds the transactions of L1, those of equal date in the same order
\* as in L1: L2[i] = L1[p[i]]
SameUpToDateOrder(L1, L2) ==
    /\ Len(L1) = Len(L2)
    /\ {L1[i] : i \in DOMAIN L1} = {L2[i] : i \in DOMAIN L2}
    /\ \E p \in Orderings(Len(L1)) :
          /\ \A i \in DOMAIN L2 : L2[i] = L1[p[i]]
          /\ \A i, j \in DOMAIN L2 :
                (i < j /\ L2[i].date = L2[j].date) => p[i] < p[j]

\* C21 as stated: the classifier walks the transactions in the order
\* supplied, without sorting them again.
C21_ProcessedAsSupplied ==
    [][ \A list \in OrderLists : CalcStart(list) => txs' = list ]_vars

\* C21, amended: the classifier sorts the transactions by date before its
\* single pass, transactions of equal date keeping the order supplied; so a
\* run depends on the order supplied only through the order of the
\* transactions of equal date: any list that holds the same transactions with
\* those of equal date in the same order starts the same run.
C21_SortedBeforePass ==
    [][ \A list \in OrderLists :
          CalcStart(list)
          => /\ \A k \in 1..(Len(txs') - 1) : txs'[k].date <= txs'[k + 1].date
             /\ SameUpToDateOrder(list, txs')
             /\ \A other \in OrderLists :
                   CalcStart(other) <=> SameUpToDateOrder(list, other) ]_vars

\* a finished run in which a disposal supplied before the purchase of the
\* same date was walked first and clamped to nothing, and a later sale was
\* clamped to the purchase
C21_Witness ==
    /\ pc = "done" /\ Len(txs) = 3
    /\ txs[1].type = "trade" /\ txs[2].type = "buy" /\ txs[3].type = "sell"
    /\ txs[1].date = txs[2].date /\ txs[2].date < txs[3].date
    /\ lot_counter = 1
    /\ Len(ret.disposals) = 1

\* the place of the result that names lot id in the list rs, 0 when none does
PlaceIn(rs, id) ==
    IF \E k \in DOMAIN rs : rs[k].lot_id = id
    THEN CHOOSE k \in DOMAIN rs : rs[k].lot_id = id
    ELSE 0

\* in the results rs, lot s is touched only after lot f has been
ConsumedFirst(rs, f, s) ==
    PlaceIn(rs, s.lot_id) > 0
       => /\ PlaceIn(rs, f.lot_id) > 0
          /\ PlaceIn(rs, f.lot_id) < PlaceIn(rs, s.lot_id)

\* the lots of the list ls that still hold something
LiveLots(ls) == {ls[i] : i \in {j \in DOMAIN ls : Gt(ls[j].remaining, Zero)}}

\* C22: under lifo, of two lots with the same acquired date the one with the
\* higher lot id (the one inserted later) is consumed first.
C22_LifoTiesLatestInsertedFirst ==
    [][ (method = "lifo" /\ calls' = calls + 1 /\ ~raised')
        => \A f, s \in LiveLots(lots[Upper(last'.asset)]) :
              (f.acquired_date = s.acquired_date /\ f.lot_id > s.lot_id)
                 => ConsumedFirst(results', f, s) ]_vars

\* C23: under hifo, of two lots with the same cost_basis_per_unit the one
\* acquired earlier is consumed first, and of two acquired on the same date the
\* one with the lower lot id, whatever the order in which they were added.
C23_HifoTiesEarliestAcquiredFirst ==
    [][ (method = "hifo" /\ calls' = calls + 1 /\ ~raised')
        => \A f, s \in LiveLots(lots[Upper(last'.asset)]) :
              ( /\ CostBasisPerUnit(f) = CostBasisPerUnit(s)
                /\ \/ f.acquired_date < s.acquired_date
                   \/ /\ f.acquired_date = s.acquired_date
                      /\ f.lot_id < s.lot_id )
                 => ConsumedFirst(results', f, s) ]_vars

\* C24: under fifo and under a method string that is none of fifo, lifo and
\* hifo, of two lots with the same acquired date the one with the lower lot id
\* (the one inserted first) is consumed first.
C24_FifoTiesFirstInsertedFirst ==
    [][ (method \notin {"lifo", "hifo"} /\ calls' = calls + 1 /\ ~raised')
        => \A f, s \in LiveLots(lots[Upper(last'.asset)]) :
              (f.acquired_date = s.acquired_date /\ f.lot_id < s.lot_id)
                 => ConsumedFirst(results', f, s) ]_vars

\* an unrecognised method, and a disposal that took from the first inserted of
\* two lots acquired on the same date and left the second untouched
C24_Witness ==
    /\ method = "average" /\ JustDisposed
    /\ Len(results) = 1
    /\ \E i, j \in DOMAIN lots["BTC"] :
          /\ i < j
          /\ lots["BTC"][i].acquired_date = lots["BTC"][j].acquired_date
          /\ results[1].lot_id = lots["BTC"][i].lot_id
          /\ lots["BTC"][j].remaining = lots["BTC"][j].quantity

\* the results recorded against lot id
ResultsOfLot(id) == SelectSeq(disposals, LAMBDA d : d.lot_id = id)

\* exact sum, in thousandths, of the cost bases recorded against lot id
CostBasisMills(id) ==
    SumMills(ResultsOfLot(id), "cost_basis", Len(ResultsOfLot(id)))

\* every recorded result carries take * cost_basis_per_unit of its lot as its
\* cost basis, and proceeds - cost_basis as its gain
CostBasisOfLot ==
    \A k \in DOMAIN disposals :
        /\ disposals[k].cost_basis
              = Mul(disposals[k].quantity,
                    CostBasisPerUnit(LotById(disposals[k].lot_id)))
        /\ disposals[k].gain_loss
              = Sub(disposals[k].proceeds, disposals[k].cost_basis)

\* the lots that have been consumed entirely
Consumed == {l \in AllLots : l.remaining = Zero /\ l.quantity # Zero}

\* the rounding allowed to n cost bases taken from a lot of total cost m
CostSlack(n, m) == (n + 1) * (m \div Pow10(PREC - 1))

\* C25 as stated: each result's cost basis is take * total_cost / quantity of
\* its lot and its gain is proceeds - cost_basis, and the cost bases recorded
\* against a fully consumed lot sum to the lot's total_cost.
C25_CostBasisSumsExactly ==
    /\ CostBasisOfLot
    /\ \A l \in Consumed : CostBasisMills(l.lot_id) = Mills(TotalCost(l))

\* C25, amended: each result's cost basis is take * cost_basis_per_unit of its
\* lot and its gain is proceeds - cost_basis, and the cost bases recorded
\* against a fully consumed lot sum to the lot's total_cost up to the rounding
\* of the division and of the products.
C25_CostBasisSumsWithinRounding ==
    /\ CostBasisOfLot
    /\ \A l \in Consumed :
          Abs(CostBasisMills(l.lot_id) - Mills(TotalCost(l)))
             <= CostSlack(Len(ResultsOfLot(l.lot_id)), Mills(TotalCost(l)))

\* a lot bought with a fee, consumed by several disposals whose cost bases do
\* not add up to its total cost
C25_Witness ==
    \E l \in Consumed :
        /\ l.fees # Zero
        /\ Len(ResultsOfLot(l.lot_id)) >= 2
        /\ CostBasisMills(l.lot_id) # Mills(TotalCost(l))

\* lot l after a step is lot k before it, with no more left than it had
SameLotNoMoreLeft(k, l) ==
    /\ l.asset = k.asset /\ l.quantity = k.quantity
    /\ l.cost_per_unit = k.cost_per_unit
    /\ l.acquired_date = k.acquired_date
    /\ l.fees = k.fees /\ l.lot_id = k.lot_id
    /\ Le(l.remaining, k.remaining)

\* C26: no operation deletes or reorders a lot or changes anything of it but
\* remaining, which never increases, and no operation modifies or removes a
\* DisposalResult already recorded.
C26_LotsAndResultsRetained ==
    [][ /\ \A a \in Symbols :
              /\ Len(lots'[a]) >= Len(lots[a])
              /\ \A i \in DOMAIN lots[a] :
                     SameLotNoMoreLeft(lots[a][i], lots'[a][i])
        /\ Len(disposals') >= Len(disposals)
        /\ \A k \in DOMAIN disposals : disposals'[k] = disposals[k] ]_vars

\* after a second successful disposal, an emptied lot is still in its list,
\* ahead of a lot added after it
C26_Witness ==
    /\ JustDisposed /\ calls >= 2 /\ Len(disposals) >= 2
    /\ \E i, j \in DOMAIN lots["BTC"] :
          /\ i < j
          /\ lots["BTC"][i].remaining = Zero
          /\ lots["BTC"][i].quantity # Zero

\* C28: an add_lot or a dispose on one asset, its symbol taken in upper case,
\* leaves the lots of every other asset, and so what is available of it, as
\* they were.
C28_OtherAssetsUntouched ==
    [][ (lot_counter' # lot_counter \/ calls' # calls)
        => \A b \in Symbols :
              b # Upper(last'.asset)
                 => /\ lots'[b] = lots[b]
                    /\ GetAvailable(lots', b) = GetAvailable(lots, b) ]_vars

\* a disposal of "btc" that consumed from the BTC lots while an ETH lot is held
C28_Witness ==
    /\ JustDisposed /\ last.asset = "btc" /\ results # <<>>
    /\ lots["ETH"] # <<>>
    /\ \A i \in DOMAIN lots["ETH"] :
          lots["ETH"][i].remaining = lots["ETH"][i].quantity
    /\ \E i \in DOMAIN lots["BTC"] :
          lots["BTC"][i].remaining # lots["BTC"][i].quantity

\* C27: every lot the classifier creates from records with quantity >= 0 and
\* fee >= 0 has quantity > 0, cost_per_unit >= 0 and fees >= 0.
C27_ClassifierValidatesLots ==
    (\A k \in DOMAIN txs : Ge(txs[k].quantity, Zero) /\ Ge(txs[k].fee, Zero))
    => \A l \in AllLots :
          /\ Gt(l.quantity, Zero)
          /\ Ge(l.cost_per_unit, Zero)
          /\ Ge(l.fees, Zero)

\* the engine of method m is where this run's engine is: the same amount of
\* every asset available, the same quantity disposed in all, and the same
\* clamped quantity for the transaction that comes next
SameQuantities(e) ==
    /\ \A a \in Symbols : GetAvailable(e.lots, a) = GetAvailable(lots, a)
    /\ TotalUnits(e.disposals, "quantity") = TotalUnits(disposals, "quantity")
    /\ (InLoop /\ PricedDisposal(Cur))
          => ClampQty(Cur.quantity, GetAvailable(e.lots, Upper(Cur.asset)))
                = ClampQty(Cur.quantity, GetAvailable(lots, Upper(Cur.asset)))

\* what the engine of this run is, computed as the comparison computes it
ThisRun == RunOn(method, txs, idx)

\* total_proceeds of the dictionary returned for engine e
TotalProceedsOf(e) == ToFloat(GetSummary(e.disposals).total_proceeds)

\* one unit in the last digit a float keeps of x, in thousandths
FloatUlpMills(x) == Pow10(Adjusted(x) - FloatPrec + 4)

\* two floats at most one unit in the last digit apart
WithinOneUlp(x, y) ==
    \/ x = y
    \/ /\ x # Zero /\ y # Zero
       /\ Abs(Mills(x) - Mills(y)) <= Max2(FloatUlpMills(x), FloatUlpMills(y))

\* C29 as stated: a run on a fresh fifo, lifo or hifo engine is, after every
\* transaction, where the runs on fresh engines of the other two methods are:
\* same clamping, same available quantity of every asset, same total disposed
\* quantity, and the returned total_proceeds are equal.
C29_MethodIndependentExactly ==
    (pc \in {"loop", "done"} /\ method \in CompareMethods)
    => /\ ThisRun.lots = lots /\ ThisRun.disposals = disposals
       /\ \A m \in CompareMethods :
             /\ SameQuantities(RunOn(m, txs, idx))
             /\ pc = "done"
                   => TotalProceedsOf(RunOn(m, txs, idx))
                         = ret.summary.total_proceeds

\* C29, amended: the same, with the returned total_proceeds equal up to the
\* rounding of the fee shares and of the conversion to float.
C29_MethodIndependentRounded ==
    (pc \in {"loop", "done"} /\ method \in CompareMethods)
    => /\ ThisRun.lots = lots /\ ThisRun.disposals = disposals
       /\ \A m \in CompareMethods :
             /\ SameQuantities(RunOn(m, txs, idx))
             /\ pc = "done"
                   => WithinOneUlp(TotalProceedsOf(RunOn(m, txs, idx)),
                                   ret.summary.total_proceeds)

\* a returned lifo run of two purchases and a sale that spans both lots, which
\* the fifo run splits over them the other way round
C29_Witness ==
    /\ pc = "done" /\ method = "lifo" /\ Len(disposals) = 2
    /\ lot_counter = 2
    /\ Len(RunOn("fifo", txs, idx).disposals) = 2
    /\ RunOn("fifo", txs, idx).disposals[1].lot_id # disposals[1].lot_id
    /\ RunOn("fifo", txs, idx).disposals[1].quantity # disposals[1].quantity

\* result r of a disposal of quantity a at the given price carries the share
\* take / a of the whole fee
CarriesShareOfWholeFee(r, a, price, fee) ==
    r.proceeds = Sub(Mul(r.quantity, price), Mul(Div(r.quantity, a), fee))

\* C30: when the classifier clamps a disposal of q to the available a with
\* 0 < a < q, the matcher is called with quantity a and the transaction's whole
\* fee, and every result's proceeds are take * price less the share take / a of
\* that fee; a clamped disposal taken from one lot bears the whole fee.
C30_ClampedDisposalBearsWholeFee ==
    [][ (InLoop /\ ClampedDisposal(Cur)
            /\ Gt(GetAvailable(lots, Upper(Cur.asset)), Zero))
        => /\ calls' = calls + 1 /\ ~raised'
           /\ last'.quantity = GetAvailable(lots, Upper(Cur.asset))
           /\ last'.fees = Cur.fee
           /\ results' # <<>>
           /\ \A k \in DOMAIN results' :
                 CarriesShareOfWholeFee(results'[k],
                                        GetAvailable(lots, Upper(Cur.asset)),
                                        Cur.price, Cur.fee)
           /\ Len(results') = 1
                 => results'[1].proceeds
                       = Sub(Mul(last'.quantity, Cur.price), Cur.fee) ]_vars

\* the loop just after a sale with a fee was clamped and taken from two lots
C30_Witness ==
    /\ pc = "loop" /\ idx > 0 /\ JustDisposed
    /\ PricedDisposal(txs[idx])
    /\ txs[idx].fee # Zero /\ last.fees = txs[idx].fee
    /\ Lt(last.quantity, txs[idx].quantity)
    /\ Len(results) = 2
    /\ results[1].proceeds # Mul(results[1].quantity, txs[idx].price)

====
